---- MODULE Spec2Model ----
(***************************************************************************)
(* Job queue, job store and file-backed result cache of the analysis      *)
(* backend (backend/jobs/queue.py, backend/jobs/synchronizer.py) together *)
(* with the HTTP handlers that drive them (backend/router_analysis.py).   *)
(***************************************************************************)
EXTENDS Integers, Sequences, FiniteSets, TLC

(***************************************************************************)
(* Bounds of the model.                                                    *)
(***************************************************************************)
MaxJobs == 2
MaxTicks == 2
MaxSvcTicks == 1
StartTime == 4000

(***************************************************************************)
(* Program constants.                                                      *)
(***************************************************************************)
DefaultTTL == 3600
DefaultCachedAt == 0

(***************************************************************************)
(* Python values: a dict (with str or int keys; body "" is the empty      *)
(* dict), a str, None, or an object json cannot serialize (a set).        *)
(***************************************************************************)
PyDict(kt, body) == [ty |-> "dict", kt |-> kt, body |-> body]
PyStr(s) == [ty |-> "str", kt |-> "str", body |-> s]
PyNone == [ty |-> "none", kt |-> "str", body |-> ""]
PySet == [ty |-> "set", kt |-> "str", body |-> "s"]

\* A stored value that cannot be read back (reading it raises), and the outcome
\* of a call that raised instead of returning a value.
Unreadable == [ty |-> "unreadable", kt |-> "str", body |-> "x"]
Raised == [ty |-> "raised", kt |-> "str", body |-> "x"]

\* Python truthiness: None, the empty dict and the empty str are falsy.
Truthy(v) == v.ty # "none" /\ v.body # ""

(***************************************************************************)
(* JSON values as they stand in a file.                                    *)
(***************************************************************************)
JNull == [jt |-> "null", n |-> 0, body |-> ""]
JNum(n) == [jt |-> "num", n |-> n, body |-> ""]
JStr(s) == [jt |-> "str", n |-> 0, body |-> s]
JObj(body) == [jt |-> "obj", n |-> 0, body |-> body]

\* json.dump of a value: dict keys are written as strings whatever their type.
Serializable(v) == v.ty # "set"
ToJson(v) ==
    CASE v.ty = "dict" -> JObj(v.body)
      [] v.ty = "str" -> JStr(v.body)
      [] OTHER -> JNull

\* json.load of a value: an object comes back as a dict with str keys.
FromJson(j) ==
    CASE j.jt = "obj" -> PyDict("str", j.body)
      [] j.jt = "str" -> PyStr(j.body)
      [] j.jt = "num" -> [ty |-> "int", kt |-> "str", body |-> "n"]
      [] OTHER -> PyNone

(***************************************************************************)
(* The content of a cache file.  kind "object" is a JSON object holding   *)
(* the fields named in has; the other kinds are an empty file, bytes that *)
(* are no JSON, the head of a record cut off by a failed dump, and JSON   *)
(* that is an array.                                                      *)
(***************************************************************************)
Content(kind, has, result, cached_at, ttl) ==
    [kind |-> kind, has |-> has, result |-> result, cached_at |-> cached_at, ttl |-> ttl]
Record(result, cached_at, ttl) ==
    Content("object", {"result", "cached_at", "ttl"}, result, cached_at, ttl)
NonJson(kind) == Content(kind, {}, JNull, JNull, JNull)
Garbage == NonJson("garbage")
EmptyFile == NonJson("empty")
Truncated == NonJson("truncated")
JsonArray == NonJson("array")

\* dict.get(field, default) on a loaded JSON object.
Get(c, field, default) ==
    IF field \in c.has
    THEN CASE field = "result" -> c.result
           [] field = "cached_at" -> c.cached_at
           [] OTHER -> c.ttl
    ELSE default

\* os.path.join(CACHE_DIR, f"{key}.json")
CacheFile(key) == "backend/cache/" \o key \o ".json"

\* The file system without / with the file at path.
Remove(fs, path) == [p \in DOMAIN fs \ {path} |-> fs[p]]
\* A write that leaves a file that is already there as it is.
WriteFile_keep(fs, path, c) ==
    [p \in DOMAIN fs \cup {path} |-> IF p = path /\ p \notin DOMAIN fs THEN c ELSE fs[p]]

WriteFile(fs, path, c) == [p \in DOMAIN fs \cup {path} |-> IF p = path THEN c ELSE fs[p]]

(***************************************************************************)
(* cache_result(key, result, ttl_seconds) at clock reading t: the file is *)
(* opened for writing (truncated) and the record dumped into it; a value  *)
(* json cannot serialize raises TypeError after the head of the record    *)
(* has been written.                                                      *)
(***************************************************************************)
cache_result_nostamp(fs, key, result, ttl_seconds, t) ==
    IF Serializable(result)
    THEN [raised |-> FALSE,
          files |-> WriteFile(fs, CacheFile(key),
                              Content("object", {"result", "ttl"}, ToJson(result), JNull,
                                      JNum(ttl_seconds)))]
    ELSE [raised |-> TRUE, files |-> WriteFile(fs, CacheFile(key), Truncated)]

cache_result(fs, key, result, ttl_seconds, t) ==
    IF Serializable(result)
    THEN [raised |-> FALSE,
          files |-> WriteFile(fs, CacheFile(key),
                              Record(ToJson(result), JNum(t), JNum(ttl_seconds)))]
    ELSE [raised |-> TRUE, files |-> WriteFile(fs, CacheFile(key), Truncated)]

(***************************************************************************)
(* get_cached_result(key) at clock reading t.  ret is the returned value  *)
(* (None for a miss).                                                     *)
(***************************************************************************)
\* json.load raises, or .get / the subtraction / the comparison raises.
ReadRaises(c) ==
    \/ c.kind # "object"
    \/ Get(c, "cached_at", JNum(DefaultCachedAt)).jt # "num"
    \/ Get(c, "ttl", JNum(DefaultTTL)).jt # "num"

Expired(c, t) ==
    t - Get(c, "cached_at", JNum(DefaultCachedAt)).n > Get(c, "ttl", JNum(DefaultTTL)).n

Miss(fs) == [ret |-> PyNone, raised |-> FALSE, files |-> fs]

get_cached_result_ge(fs, key, t) ==
    LET path == CacheFile(key) IN
    IF path \notin DOMAIN fs THEN Miss(fs)
    ELSE IF ReadRaises(fs[path]) THEN Miss(Remove(fs, path))
    ELSE IF t - Get(fs[path], "cached_at", JNum(DefaultCachedAt)).n
              >= Get(fs[path], "ttl", JNum(DefaultTTL)).n
         THEN Miss(Remove(fs, path))
    ELSE [ret |-> FromJson(Get(fs[path], "result", JNull)), raised |-> FALSE, files |-> fs]

get_cached_result_noexcept(fs, key, t) ==
    LET path == CacheFile(key) IN
    IF path \notin DOMAIN fs THEN Miss(fs)
    ELSE IF ReadRaises(fs[path]) THEN [ret |-> PyNone, raised |-> TRUE, files |-> fs]
    ELSE IF Expired(fs[path], t) THEN Miss(Remove(fs, path))
    ELSE [ret |-> FromJson(Get(fs[path], "result", JNull)), raised |-> FALSE, files |-> fs]

get_cached_result(fs, key, t) ==
    LET path == CacheFile(key) IN
    IF path \notin DOMAIN fs THEN Miss(fs)
    ELSE IF ReadRaises(fs[path]) THEN Miss(Remove(fs, path))
    ELSE IF Expired(fs[path], t) THEN Miss(Remove(fs, path))
    ELSE [ret |-> FromJson(Get(fs[path], "result", JNull)), raised |-> FALSE, files |-> fs]

(***************************************************************************)
(* State.                                                                  *)
(*   files       the cache directory: file path -> content                 *)
(*   now         the wall clock (time.time(), datetime.now())              *)
(*   last        the last call of the cache API (or outside write to the   *)
(*               cache directory) with what it found and returned          *)
(*   use_redis   JobQueue.use_redis, set by the constructor                *)
(*   jobs_store  the module's _jobs_store: job id -> record (a dict)       *)
(*   ready       the event loop's queue of tasks created and not started   *)
(*   pc          per local job, the line its task _run_async_job is at     *)
(*   frame       per local job, the task's locals: what run() returned or  *)
(*               the exception being handled                               *)
(*   runs        per local job, how often orchestrator.run was called      *)
(*   cur         the coroutine that holds the event loop's thread          *)
(*   resp        the last HTTP response                                    *)
(*   rq_jobs     the broker's jobs (durable regime): job id -> rq job      *)
(*   broker_up   whether the broker answers                                *)
(*   procs       the cache calls other processes have under way on one     *)
(*               key: where each is, and the record it writes or the value *)
(*               it returned                                               *)
(*   keyed       the last two calls of generate_cache_key made by a        *)
(*               caller, with the string hashed and the key returned       *)
(***************************************************************************)
VARIABLES files, now, last, use_redis, jobs_store, ready, pc, frame, runs, cur, resp,
          rq_jobs, broker_up, keyed, procs

cachevars == <<files, now, last, keyed, procs>>
localvars == <<jobs_store, ready, pc, frame, runs>>
brokervars == <<rq_jobs, broker_up>>
svcvars == <<use_redis, jobs_store, ready, pc, frame, runs, cur, resp, rq_jobs, broker_up>>
vars == <<files, now, last, use_redis, jobs_store, ready, pc, frame, runs, cur, resp,
          rq_jobs, broker_up, keyed, procs>>

NoFiles == [p \in {} |-> Garbage]
Absent == NonJson("absent")

\* What is at a key: Absent, or the file's content.
At(fs, key) == IF CacheFile(key) \in DOMAIN fs THEN fs[CacheFile(key)] ELSE Absent

Call(op, key, val, ttl, t, ret, raised, pre) ==
    [op |-> op, key |-> key, val |-> val, ttl |-> ttl, time |-> t,
     ret |-> ret, raised |-> raised, pre |-> pre]
NoCall == Call("none", "", PyNone, 0, StartTime, PyNone, FALSE, Absent)

(***************************************************************************)
(* The job queue and the HTTP handlers.                                    *)
(***************************************************************************)
\* str(uuid.uuid4()): the n-th id handed out.
Uuid(n) == "job-" \o ToString(n)
UUIDs == {Uuid(n) : n \in 1..MaxJobs}

\* dict[k] = v and dict.get(k) on a dict held as a function of its keys.
SetItem(d, k, v) == [x \in DOMAIN d \cup {k} |-> IF x = k THEN v ELSE d[x]]
NoDict == [x \in {} |-> PyNone]

\* What orchestrator.run may hand back: a ReasoningOutput, or (a mocked unit of
\* work) an object without a dict() method; and the exceptions it may raise.
ReasoningOutput(memo, verdict) ==
    [cls |-> "ReasoningOutput", memo_markdown |-> memo, verdict |-> verdict]
PlainObject == [cls |-> "object", memo_markdown |-> "", verdict |-> ""]
Outputs == {ReasoningOutput("memo", "Safe"), PlainObject}
Exc(type, msg) == [type |-> type, msg |-> msg]
NoExc == Exc("", "")
RunErrors == {Exc("RuntimeError", "boom")}
AttributeError == Exc("AttributeError", "object has no attribute dict")

\* result.dict() and str(e).
HasDict(o) == o.cls = "ReasoningOutput"
Dict(o) == PyDict("str", o.memo_markdown \o "/" \o o.verdict)
Str(e) == PyStr(e.msg)

\* The requests of the model: (address, radius_m, include_long_context).
Requests == {<<"a1", 800, TRUE>>, <<"a2", 800, TRUE>>}

\* generate_cache_key: the md5 hex digest of "{address}_{radius_m}_{flag}".
BoolStr(b) == IF b THEN "True" ELSE "False"
MD5(str) == "md5(" \o str \o ")"

\* The three parts put together without the separators.
key_string_nosep(address, radius_m, include_long_context) ==
    address \o ToString(radius_m) \o BoolStr(include_long_context)

\* Line 56: f"{address}_{radius_m}_{include_long_context}".
key_string(address, radius_m, include_long_context) ==
    address \o "_" \o ToString(radius_m) \o "_" \o BoolStr(include_long_context)

generate_cache_key(address, radius_m, include_long_context) ==
    MD5(key_string(address, radius_m, include_long_context))

Idle == [who |-> "loop", job |-> ""]
Task(j) == [who |-> "task", job |-> j]
Handler(j) == [who |-> "analyze_async", job |-> j]

\* The task's locals, with the tools the unit of work called.
Frame(value, exc, calls) == [value |-> value, exc |-> exc, calls |-> calls]
NoFrame == Frame(PlainObject, NoExc, {})

(***************************************************************************)
(* orchestrator.run: the address is geocoded; without a match the result   *)
(* is the 'could not geocode' memo; with one the data lookup tools and the *)
(* LLM are called, and the unit returns a value or raises.  The set of     *)
(* outcomes, each with the tools called.                                   *)
(***************************************************************************)
\* The addresses the geocoder has no match for (geocode.py, line 19).
NoMatch == {"a2"}
geocode(address) ==
    IF address \in NoMatch THEN PyNone ELSE PyDict("str", "lat/lon of " \o address)

DataTools == {"amenities", "permits", "comps", "zoning", "climate", "schools", "crime",
              "infra_context"}
GeocodeFailure == ReasoningOutput("Could not geocode address.", "Error")

\* A failed geocoding raised instead of answered.
run_raise(address, radius_m, include_long_context) ==
    IF ~Truthy(geocode(address))
    THEN {Frame(PlainObject, Exc("ValueError", "Could not geocode address."), {"geocode"})}
    ELSE {Frame(o, NoExc, {"geocode", "llm_reasoner"} \cup DataTools) : o \in Outputs}
         \cup {Frame(PlainObject, e, {"geocode"} \cup DataTools) : e \in RunErrors}

run(address, radius_m, include_long_context) ==
    IF ~Truthy(geocode(address))
    THEN {Frame(GeocodeFailure, NoExc, {"geocode"})}
    ELSE {Frame(o, NoExc, {"geocode", "llm_reasoner"} \cup DataTools) : o \in Outputs}
         \cup {Frame(PlainObject, e, {"geocode"} \cup DataTools) : e \in RunErrors}

\* The fresh id of the next enqueue.
NextId == Uuid(Cardinality(DOMAIN jobs_store \cup DOMAIN rq_jobs) + 1)
CanEnqueue == Cardinality(DOMAIN jobs_store \cup DOMAIN rq_jobs) < MaxJobs

\* HTTP responses.
Response(op, job_id, code, body) == [op |-> op, job_id |-> job_id, code |-> code, body |-> body]
NoResponse == Response("none", "", 0, NoDict)
JobResponse(job_id, status, message) ==
    [job_id |-> job_id, status |-> status, message |-> message]

(***************************************************************************)
(* JobQueue.enqueue_analysis under the id job_id.  Local regime: the      *)
(* record is stored and the task created (it starts when the loop next    *)
(* runs it).  Durable regime: the job is handed to the broker, which      *)
(* raises when it cannot be reached.  ok' tells whether the call returned.*)
(***************************************************************************)
NewRecord(address, radius_m, include_long_context, t) ==
    [status |-> "queued", created_at |-> t, address |-> address, radius_m |-> radius_m,
     include_long_context |-> include_long_context, result |-> PyNone, error |-> PyNone]

RqJob(args, status, created_at, started_at, ended_at, result, exc_info) ==
    [args |-> args, status |-> status, created_at |-> created_at, started_at |-> started_at,
     ended_at |-> ended_at, result |-> result, exc_info |-> exc_info]

CreateTask(job_id) ==
    /\ ready' = Append(ready, job_id)
    /\ pc' = SetItem(pc, job_id, "pending")
    /\ frame' = SetItem(frame, job_id, NoFrame)
    /\ runs' = SetItem(runs, job_id, 0)

\* The unit of work run inside the call instead of in a task of its own.
enqueue_analysis_inline(job_id, address, radius_m, include_long_context) ==
    IF use_redis
    THEN /\ broker_up
         /\ rq_jobs' = SetItem(rq_jobs, job_id,
                            RqJob(<<address, radius_m, include_long_context>>, "queued", now,
                                  PyNone, PyNone, PyNone, PyNone))
         /\ UNCHANGED <<localvars, broker_up>>
    ELSE /\ jobs_store' = SetItem(jobs_store, job_id,
                                  SetItem(NewRecord(address, radius_m, include_long_context, now),
                                          "status", "started"))
         /\ pc' = SetItem(pc, job_id, "l61")
         /\ frame' = SetItem(frame, job_id, NoFrame)
         /\ runs' = SetItem(runs, job_id, 0)
         /\ ready' = ready
         /\ UNCHANGED brokervars

enqueue_analysis(job_id, address, radius_m, include_long_context) ==
    IF use_redis
    THEN /\ broker_up
         /\ rq_jobs' = SetItem(rq_jobs, job_id,
                            RqJob(<<address, radius_m, include_long_context>>, "queued", now,
                                  PyNone, PyNone, PyNone, PyNone))
         /\ UNCHANGED <<localvars, broker_up>>
    ELSE /\ jobs_store' = SetItem(jobs_store, job_id,
                                  NewRecord(address, radius_m, include_long_context, now))
         /\ CreateTask(job_id)
         /\ UNCHANGED brokervars

\* The enqueue raises: the broker of the durable regime is not reachable.
EnqueueRaises == use_redis /\ ~broker_up

\* enqueue_analysis called by code that runs outside the event loop (lines
\* 28-55).  Durable regime: as in the handler.  Local regime: the record is
\* stored (line 44), then asyncio.create_task raises RuntimeError, there being
\* no running loop (line 54): no task is made.  last tells the id and whether
\* the call raised.
EnqueueOutsideLoop(address, radius_m, include_long_context) ==
    /\ cur = Idle
    /\ CanEnqueue
    /\ IF use_redis
       THEN /\ IF broker_up
               THEN rq_jobs' = SetItem(rq_jobs, NextId,
                                  RqJob(<<address, radius_m, include_long_context>>, "queued",
                                        now, PyNone, PyNone, PyNone, PyNone))
               ELSE UNCHANGED rq_jobs
            /\ last' = Call("enqueue_analysis", NextId, PyNone, 0, now, PyNone,
                            ~broker_up, Absent)
            /\ UNCHANGED jobs_store
       ELSE /\ jobs_store' = SetItem(jobs_store, NextId,
                                     NewRecord(address, radius_m, include_long_context, now))
            /\ last' = Call("enqueue_analysis", NextId, PyNone, 0, now, PyNone, TRUE, Absent)
            /\ UNCHANGED rq_jobs
    /\ UNCHANGED <<files, now, keyed, procs, use_redis, ready, pc, frame, runs, cur, resp,
                   broker_up>>

(***************************************************************************)
(* JobQueue._run_async_job, line by line.  The coroutine never awaits, so *)
(* from its first line to its last it holds the loop's thread (cur).      *)
(***************************************************************************)
\* An assignment that lands in every record of the table.
Store_all(job_id, key, value) ==
    jobs_store' = [x \in DOMAIN jobs_store |-> SetItem(jobs_store[x], key, value)]

Store(job_id, key, value) ==
    jobs_store' = [jobs_store EXCEPT ![job_id] = SetItem(@, key, value)]
Goto(job_id, line) == pc' = [pc EXCEPT ![job_id] = line]

\* The loop starts the oldest task; line 60.
TaskStart(j) ==
    /\ cur = Idle /\ ready # <<>> /\ j = Head(ready)
    /\ ready' = Tail(ready)
    /\ cur' = Task(j)
    /\ Store(j, "status", "started")
    /\ Goto(j, "l61")
    /\ UNCHANGED <<cachevars, use_redis, frame, runs, resp, brokervars>>

\* Line 61.
TaskStamp(j) ==
    /\ cur = Task(j) /\ pc[j] = "l61"
    /\ Store(j, "started_at", now)
    /\ Goto(j, "l66")
    /\ UNCHANGED <<cachevars, use_redis, ready, frame, runs, cur, resp, brokervars>>

\* An exception of the unit of work that the except clause does not catch.
TaskRun_uncaught(j) ==
    /\ cur = Task(j) /\ pc[j] = "l66"
    /\ runs' = [runs EXCEPT ![j] = @ + 1]
    /\ \E out \in run(jobs_store[j].address, jobs_store[j].radius_m,
                       jobs_store[j].include_long_context) :
          /\ frame' = [frame EXCEPT ![j] = out]
          /\ IF out.exc = NoExc
             THEN Goto(j, "l68") /\ UNCHANGED cur
             ELSE Goto(j, "done") /\ cur' = Idle
    /\ UNCHANGED <<cachevars, use_redis, jobs_store, ready, resp, brokervars>>

\* Lines 64-66: orchestrator.run, called with the task's arguments (those the
\* record was made from), returns a value or raises.
TaskRun(j) ==
    /\ cur = Task(j) /\ pc[j] = "l66"
    /\ runs' = [runs EXCEPT ![j] = @ + 1]
    /\ \E out \in run(jobs_store[j].address, jobs_store[j].radius_m,
                       jobs_store[j].include_long_context) :
          /\ frame' = [frame EXCEPT ![j] = out]
          /\ Goto(j, IF out.exc = NoExc THEN "l68" ELSE "l73")
    /\ UNCHANGED <<cachevars, use_redis, jobs_store, ready, cur, resp, brokervars>>

\* Line 68.
TaskFinished(j) ==
    /\ cur = Task(j) /\ pc[j] = "l68"
    /\ Store(j, "status", "finished")
    /\ Goto(j, "l69")
    /\ UNCHANGED <<cachevars, use_redis, ready, frame, runs, cur, resp, brokervars>>

\* Line 69: result.dict() raises when the value has no such method.
TaskResult(j) ==
    /\ cur = Task(j) /\ pc[j] = "l69"
    /\ IF HasDict(frame[j].value)
       THEN /\ Store(j, "result", Dict(frame[j].value))
            /\ Goto(j, "l70")
            /\ UNCHANGED frame
       ELSE /\ frame' = [frame EXCEPT ![j] = Frame(@.value, AttributeError, @.calls)]
            /\ Goto(j, "l73")
            /\ UNCHANGED jobs_store
    /\ UNCHANGED <<cachevars, use_redis, ready, runs, cur, resp, brokervars>>

\* The end of the try branch stamping the start anew.
TaskFinishedAt_restamp(j) ==
    /\ cur = Task(j) /\ pc[j] = "l70"
    /\ jobs_store' = [jobs_store EXCEPT ![j] =
                         SetItem(SetItem(@, "finished_at", now), "started_at", now)]
    /\ Goto(j, "done")
    /\ cur' = Idle
    /\ UNCHANGED <<cachevars, use_redis, ready, frame, runs, resp, brokervars>>

\* Line 70, the coroutine's last on this path.
TaskFinishedAt(j) ==
    /\ cur = Task(j) /\ pc[j] = "l70"
    /\ Store(j, "finished_at", now)
    /\ Goto(j, "done")
    /\ cur' = Idle
    /\ UNCHANGED <<cachevars, use_redis, ready, frame, runs, resp, brokervars>>

\* The except branch without its assignment to status.
TaskFailed_nostatus(j) ==
    /\ cur = Task(j) /\ pc[j] = "l73"
    /\ Goto(j, "l74")
    /\ UNCHANGED <<cachevars, use_redis, jobs_store, ready, frame, runs, cur, resp, brokervars>>

\* Line 73, the first of the except branch.
TaskFailed(j) ==
    /\ cur = Task(j) /\ pc[j] = "l73"
    /\ Store(j, "status", "failed")
    /\ Goto(j, "l74")
    /\ UNCHANGED <<cachevars, use_redis, ready, frame, runs, cur, resp, brokervars>>

\* The exception's class name stored in place of str(e).
TaskError_type(j) ==
    /\ cur = Task(j) /\ pc[j] = "l74"
    /\ Store(j, "error", PyStr(frame[j].exc.type))
    /\ Goto(j, "l75")
    /\ UNCHANGED <<cachevars, use_redis, ready, frame, runs, cur, resp, brokervars>>

\* Line 74.
TaskError(j) ==
    /\ cur = Task(j) /\ pc[j] = "l74"
    /\ Store(j, "error", Str(frame[j].exc))
    /\ Goto(j, "l75")
    /\ UNCHANGED <<cachevars, use_redis, ready, frame, runs, cur, resp, brokervars>>

\* The failed job put back in the loop's queue, once.
TaskFailedAt_retry(j) ==
    /\ cur = Task(j) /\ pc[j] = "l75"
    /\ Store(j, "failed_at", now)
    /\ cur' = Idle
    /\ IF runs[j] < 2
       THEN Goto(j, "pending") /\ ready' = Append(ready, j)
       ELSE Goto(j, "done") /\ UNCHANGED ready
    /\ UNCHANGED <<cachevars, use_redis, frame, runs, resp, brokervars>>

\* Line 75, the coroutine's last on this path.
TaskFailedAt(j) ==
    /\ cur = Task(j) /\ pc[j] = "l75"
    /\ Store(j, "failed_at", now)
    /\ Goto(j, "done")
    /\ cur' = Idle
    /\ UNCHANGED <<cachevars, use_redis, ready, frame, runs, resp, brokervars>>

run_async_job(j) ==
    \/ TaskStart(j) \/ TaskStamp(j) \/ TaskRun(j)
    \/ TaskFinished(j) \/ TaskResult(j) \/ TaskFinishedAt(j)
    \/ TaskFailed(j) \/ TaskError(j) \/ TaskFailedAt(j)

(***************************************************************************)
(* JobQueue.get_job_status: the dict returned, PyNone for None.           *)
(***************************************************************************)
RqStatus(job_id, job) ==
    LET base == [job_id |-> job_id, status |-> job.status, created_at |-> job.created_at,
                 started_at |-> job.started_at, ended_at |-> job.ended_at]
    IN IF job.status = "finished" THEN SetItem(base, "result", job.result)
       ELSE IF job.status = "failed" THEN SetItem(base, "error", Str(Exc("", job.exc_info.body)))
       ELSE base

\* Lines 81 and 87-96 raise: the broker does not answer the fetch, or a field
\* of the job cannot be read.
FetchRaises == ~broker_up
FieldsRaise(job) == job.status = "finished" /\ job.result = Unreadable

\* A lookup that asks the broker whenever it answers, whatever the regime.
get_job_status_mixed(job_id) ==
    IF use_redis \/ broker_up
    THEN IF FetchRaises THEN PyNone
         ELSE IF job_id \notin DOMAIN rq_jobs THEN PyNone
         ELSE IF FieldsRaise(rq_jobs[job_id]) THEN PyNone
         ELSE RqStatus(job_id, rq_jobs[job_id])
    ELSE IF job_id \in DOMAIN jobs_store THEN jobs_store[job_id] ELSE PyNone

\* A lookup without the except clause.
get_job_status_noexcept(job_id) ==
    IF use_redis
    THEN IF FetchRaises THEN Raised
         ELSE IF job_id \notin DOMAIN rq_jobs THEN PyNone
         ELSE IF FieldsRaise(rq_jobs[job_id]) THEN Raised
         ELSE RqStatus(job_id, rq_jobs[job_id])
    ELSE IF job_id \in DOMAIN jobs_store THEN jobs_store[job_id] ELSE PyNone

get_job_status(job_id) ==
    IF use_redis
    THEN IF FetchRaises THEN PyNone
         ELSE IF job_id \notin DOMAIN rq_jobs THEN PyNone
         ELSE IF FieldsRaise(rq_jobs[job_id]) THEN PyNone
         ELSE RqStatus(job_id, rq_jobs[job_id])
    ELSE IF job_id \in DOMAIN jobs_store THEN jobs_store[job_id] ELSE PyNone

(***************************************************************************)
(* The handlers of router_analysis.py.                                     *)
(***************************************************************************)
\* JobStatusResponse(**job_status): job_id and status are required, the other
\* fields optional, keys that are no field of the model are dropped.
StatusFields ==
    {"job_id", "status", "created_at", "started_at", "finished_at", "failed_at",
     "result", "error"}
Validates(d) ==
    /\ "job_id" \in DOMAIN d
    /\ "status" \in DOMAIN d
    /\ "result" \in DOMAIN d => d.result.ty \in {"dict", "none"}
    /\ "error" \in DOMAIN d => d.error.ty \in {"str", "none"}
JobStatusResponse(d) == [k \in DOMAIN d \cap StatusFields |-> d[k]]

\* dict.get(key) on the status dict: None when the key is missing.
StatusGet(d, key) == IF key \in DOMAIN d THEN d[key] ELSE PyNone

\* The handler answering a failure of the unit of work with a memo of the error.
analyze_caught(address, radius_m, include_long_context) ==
    /\ cur = Idle
    /\ \E out \in run(address, radius_m, include_long_context) :
          resp' = IF out.exc # NoExc
                  THEN Response("analyze", "", 200, ReasoningOutput(out.exc.msg, "Error"))
                  ELSE IF HasDict(out.value)
                  THEN Response("analyze", "", 200, out.value)
                  ELSE Response("analyze", "", 500, NoDict)
    /\ UNCHANGED <<cachevars, use_redis, localvars, brokervars, cur>>

\* POST /analyze, lines 30-33: the unit of work is called in the handler and
\* its value returned; an exception it raises, or a value that cannot be made
\* a response, leaves the handler and the caller gets an error (code 500).
analyze(address, radius_m, include_long_context) ==
    /\ cur = Idle
    /\ \E out \in run(address, radius_m, include_long_context) :
          resp' = IF out.exc = NoExc /\ HasDict(out.value)
                  THEN Response("analyze", "", 200, out.value)
                  ELSE Response("analyze", "", 500, NoDict)
    /\ UNCHANGED <<cachevars, use_redis, localvars, brokervars, cur>>

\* POST /analyze/async, lines 39-50: the cache is read, and on a miss the job
\* enqueued; the hit is answered at once.
AnalyzeAsyncCall(address, radius_m, include_long_context) ==
    LET cache_key == generate_cache_key(address, radius_m, include_long_context)
        cached == get_cached_result(files, cache_key, now)
    IN /\ cur = Idle
       /\ files' = cached.files
       /\ IF Truthy(cached.ret)
          THEN /\ resp' = Response("analyze_async", "", 200,
                                   JobResponse("cached", "finished", "Result retrieved from cache"))
               /\ UNCHANGED <<localvars, brokervars, cur>>
          ELSE IF EnqueueRaises
          THEN /\ resp' = Response("analyze_async", "", 500, NoDict)
               /\ UNCHANGED <<localvars, brokervars, cur>>
          ELSE /\ CanEnqueue
               /\ enqueue_analysis(NextId, address, radius_m, include_long_context)
               /\ cur' = Handler(NextId)
               /\ UNCHANGED resp
       /\ UNCHANGED <<now, last, keyed, procs, use_redis>>

\* POST /analyze/async, lines 52-56: the 'queued' response.
AnalyzeAsyncReturn ==
    /\ cur.who = "analyze_async"
    /\ resp' = Response("analyze_async", "", 200,
                        JobResponse(cur.job, "queued", "Analysis job has been queued"))
    /\ cur' = Idle
    /\ UNCHANGED <<cachevars, use_redis, localvars, brokervars>>

\* GET /result/{job_id} caching the result under the key of the job's request.
get_job_result_reqkey(job_id) ==
    LET job_status == get_job_status(job_id)
        found == job_status # PyNone /\ DOMAIN job_status # {}
        caches == /\ found
                  /\ StatusGet(job_status, "status") = "finished"
                  /\ Truthy(StatusGet(job_status, "result"))
        args == IF use_redis THEN rq_jobs[job_id].args
                ELSE <<jobs_store[job_id].address, jobs_store[job_id].radius_m,
                       jobs_store[job_id].include_long_context>>
        written == cache_result(files, generate_cache_key(args[1], args[2], args[3]),
                                job_status.result, DefaultTTL, now)
    IN /\ cur = Idle
       /\ IF job_id = "cached"
          THEN /\ resp' = Response("get_job_result", job_id, 400, NoDict)
               /\ UNCHANGED files
          ELSE IF ~found
          THEN /\ resp' = Response("get_job_result", job_id, 404, NoDict)
               /\ UNCHANGED files
          ELSE /\ files' = IF caches THEN written.files ELSE files
               /\ resp' = IF (caches /\ written.raised) \/ ~Validates(job_status)
                          THEN Response("get_job_result", job_id, 500, NoDict)
                          ELSE Response("get_job_result", job_id, 200,
                                        JobStatusResponse(job_status))
       /\ UNCHANGED <<now, last, keyed, procs, use_redis, localvars, brokervars, cur>>

\* GET /result/{job_id} without the check for "cached".
get_job_result_noguard(job_id) ==
    LET job_status == get_job_status(job_id)
        found == job_status # PyNone /\ DOMAIN job_status # {}
        caches == /\ found
                  /\ StatusGet(job_status, "status") = "finished"
                  /\ Truthy(StatusGet(job_status, "result"))
        written == cache_result(files, "job_" \o job_id, job_status.result, DefaultTTL, now)
    IN /\ cur = Idle
       /\ IF ~found
          THEN /\ resp' = Response("get_job_result", job_id, 404, NoDict)
               /\ UNCHANGED files
          ELSE /\ files' = IF caches THEN written.files ELSE files
               /\ resp' = IF (caches /\ written.raised) \/ ~Validates(job_status)
                          THEN Response("get_job_result", job_id, 500, NoDict)
                          ELSE Response("get_job_result", job_id, 200,
                                        JobStatusResponse(job_status))
       /\ UNCHANGED <<now, last, keyed, procs, use_redis, localvars, brokervars, cur>>

\* GET /result/{job_id}.
get_job_result(job_id) ==
    LET job_status == get_job_status(job_id)
        found == job_status # PyNone /\ DOMAIN job_status # {}
        caches == /\ found
                  /\ StatusGet(job_status, "status") = "finished"
                  /\ Truthy(StatusGet(job_status, "result"))
        written == cache_result(files, "job_" \o job_id, job_status.result, DefaultTTL, now)
    IN /\ cur = Idle
       /\ IF job_id = "cached"
          THEN /\ resp' = Response("get_job_result", job_id, 400, NoDict)
               /\ UNCHANGED files
          ELSE IF ~found
          THEN /\ resp' = Response("get_job_result", job_id, 404, NoDict)
               /\ UNCHANGED files
          ELSE /\ files' = IF caches THEN written.files ELSE files
               /\ resp' = IF (caches /\ written.raised) \/ ~Validates(job_status)
                          THEN Response("get_job_result", job_id, 500, NoDict)
                          ELSE Response("get_job_result", job_id, 200,
                                        JobStatusResponse(job_status))
       /\ UNCHANGED <<now, last, keyed, procs, use_redis, localvars, brokervars, cur>>

\* A caller stores a result under a request's key ahead of time.  (The steps of
\* other processes are taken between the coroutines of this one, which is when
\* this process can next see them.)
PrecachedRequests == {<<"a1", 800, TRUE>>}
PrecachedValues == {PyDict("str", "memo/Safe"), PyDict("str", "")}
OutsideCacheResult(address, radius_m, include_long_context, v) ==
    /\ cur = Idle
    /\ files' = cache_result(files, generate_cache_key(address, radius_m, include_long_context),
                             v, 0, now).files
    /\ UNCHANGED <<now, last, keyed, procs, svcvars>>

(***************************************************************************)
(* The durable regime's surroundings: a worker process runs               *)
(* workers.run_analysis_job, and the broker comes and goes.               *)
(***************************************************************************)
WorkerStart(j) ==
    /\ cur = Idle
    /\ use_redis /\ broker_up
    /\ j \in DOMAIN rq_jobs /\ rq_jobs[j].status = "queued"
    /\ rq_jobs' = [rq_jobs EXCEPT ![j].status = "started", ![j].started_at = now]
    /\ UNCHANGED <<cachevars, use_redis, localvars, cur, resp, broker_up>>

run_analysis_job(j) ==
    /\ cur = Idle
    /\ use_redis /\ broker_up
    /\ j \in DOMAIN rq_jobs /\ rq_jobs[j].status = "started"
    /\ \E out \in run(rq_jobs[j].args[1], rq_jobs[j].args[2], rq_jobs[j].args[3]) :
          rq_jobs' = [rq_jobs EXCEPT ![j] =
              IF out.exc # NoExc
              THEN RqJob(@.args, "failed", @.created_at, @.started_at, now, PyNone,
                         PyStr(out.exc.msg))
              ELSE IF HasDict(out.value)
              THEN RqJob(@.args, "finished", @.created_at, @.started_at, now,
                         Dict(out.value), PyNone)
              ELSE RqJob(@.args, "failed", @.created_at, @.started_at, now, PyNone,
                         PyStr(AttributeError.msg))]
    /\ UNCHANGED <<cachevars, use_redis, localvars, cur, resp, broker_up>>

\* The broker's own tools act on a job: a queued job is canceled (rq's
\* job.cancel()), which sets its native status to one this program never sets.
BrokerCancel(j) ==
    /\ cur = Idle
    /\ use_redis /\ broker_up
    /\ j \in DOMAIN rq_jobs /\ rq_jobs[j].status = "queued"
    /\ rq_jobs' = [rq_jobs EXCEPT ![j].status = "canceled", ![j].ended_at = now]
    /\ UNCHANGED <<cachevars, use_redis, localvars, cur, resp, broker_up>>

\* The stored result of a finished job is damaged: it cannot be read back.
BrokerDamage(j) ==
    /\ cur = Idle
    /\ use_redis /\ broker_up
    /\ j \in DOMAIN rq_jobs /\ rq_jobs[j].status = "finished"
    /\ rq_jobs[j].result # Unreadable
    /\ rq_jobs' = [rq_jobs EXCEPT ![j].result = Unreadable]
    /\ UNCHANGED <<cachevars, use_redis, localvars, cur, resp, broker_up>>

BrokerFlip ==
    /\ cur = Idle
    /\ use_redis
    /\ broker_up' = ~broker_up
    /\ UNCHANGED <<cachevars, use_redis, localvars, cur, resp, rq_jobs>>

(***************************************************************************)
(* The cache API driven directly: keys, values and ttls a caller passes,  *)
(* and what another process may leave in a cache file.                    *)
(***************************************************************************)
Keys == {"k1", "k2"}
Values == {PyDict("str", "m1"), PyDict("int", "m2"), PyNone, PySet}
TTLs == {-1, 1}
FarTTL == 2 * StartTime
OldStamp == StartTime - DefaultTTL + 1
ForeignContents ==
    {Garbage, EmptyFile, JsonArray,
     Content("object", {}, JNull, JNull, JNull),
     Content("object", {"ttl"}, JNull, JNull, JNum(FarTTL)),
     Content("object", {"result", "ttl"}, JObj("m2"), JNull, JNum(FarTTL)),
     Content("object", {"result", "cached_at"}, JObj("m2"), JNum(OldStamp), JNull),
     Content("object", {"result", "cached_at", "ttl"}, JObj("m2"), JStr("today"), JNum(1))}

CallCacheResult(k, v, ttl) ==
    LET r == cache_result(files, k, v, ttl, now) IN
    /\ files' = r.files
    /\ last' = Call("put", k, v, ttl, now, PyNone, r.raised, At(files, k))
    /\ UNCHANGED <<now, keyed, procs, svcvars>>

CallGetCachedResult(k) ==
    LET r == get_cached_result(files, k, now) IN
    /\ files' = r.files
    /\ last' = Call("get", k, PyNone, 0, now, r.ret, r.raised, At(files, k))
    /\ UNCHANGED <<now, keyed, procs, svcvars>>

ForeignWrite(k, c) ==
    /\ files' = WriteFile(files, CacheFile(k), c)
    /\ last' = Call("foreign", k, PyNone, 0, now, PyNone, FALSE, At(files, k))
    /\ UNCHANGED <<now, keyed, procs, svcvars>>

Tick(limit) ==
    /\ now < StartTime + limit
    /\ now' = now + 1
    /\ UNCHANGED <<files, last, keyed, procs, svcvars>>

(***************************************************************************)
(* generate_cache_key driven directly: the addresses, radii and flags a    *)
(* caller passes.                                                          *)
(***************************************************************************)
Addresses == {"p", "p1", "p_1", "p_1_True", "P", "p "}
Radii == {1, 11, -1}

KeyCall(address, radius_m, include_long_context) ==
    [address |-> address, radius_m |-> radius_m, include_long_context |-> include_long_context,
     key_string |-> key_string(address, radius_m, include_long_context),
     key |-> generate_cache_key(address, radius_m, include_long_context)]

CallGenerateCacheKey(address, radius_m, include_long_context) ==
    /\ keyed' = IF keyed = <<>>
                THEN <<KeyCall(address, radius_m, include_long_context)>>
                ELSE <<keyed[Len(keyed)], KeyCall(address, radius_m, include_long_context)>>
    /\ UNCHANGED <<files, now, last, procs, svcvars>>

(***************************************************************************)
(* The cache used by several processes at once on one key: each call of    *)
(* cache_result and get_cached_result is a sequence of system calls, and   *)
(* the calls of different processes interleave.  A writer opens the file   *)
(* (creating or truncating it; its position is the start of the file) and  *)
(* writes its record when the file is closed (the record fits the buffer); *)
(* a reader tests that the file exists, opens and loads it, and removes it *)
(* when the load raised or the entry has expired.  linked tells whether    *)
(* the file a writer holds open is still the one at the path.              *)
(***************************************************************************)
Writers == {"w1", "w2"}
Readers == {"r1"}
RaceKey == "k1"
RaceValues == {PyDict("str", "m1"), PyDict("str", "")}

Proc(at, linked, rec, ret) == [at |-> at, linked |-> linked, rec |-> rec, ret |-> ret]
NoProcs == [p \in Writers \cup Readers |-> Proc("idle", FALSE, EmptyFile, PyNone)]

\* The entry the key may hold before the calls: none, a valid one, an expired one.
OldValid == Record(JObj("old"), JNum(StartTime), JNum(DefaultTTL))
OldExpired == Record(JObj("old"), JNum(DefaultCachedAt), JNum(1))

\* The size of a file, in units: an empty result makes the shorter record.
Bytes(c) ==
    IF c.kind = "empty" THEN 0
    ELSE IF c.kind = "object" /\ c.result.body = "" THEN 1
    ELSE 2

\* write() at the start of a file that holds old: a shorter record leaves the
\* tail of old behind it, which json.load rejects.
Overlay(old, rec) == IF Bytes(rec) >= Bytes(old) THEN rec ELSE Garbage

\* cache_result, lines 12-21: the record is made and the file opened with "w".
WOpen(p, result, ttl_seconds) ==
    /\ procs[p].at = "idle"
    /\ files' = WriteFile(files, CacheFile(RaceKey), EmptyFile)
    /\ procs' = [procs EXCEPT ![p] =
                    Proc("opened", TRUE, Record(ToJson(result), JNum(now), JNum(ttl_seconds)),
                         PyNone)]
    /\ UNCHANGED <<now, last, keyed, svcvars>>

\* cache_result, lines 21-22: the dump is written as the file is closed.
WClose(p) ==
    /\ procs[p].at = "opened"
    /\ files' = IF procs[p].linked
                THEN [files EXCEPT ![CacheFile(RaceKey)] = Overlay(@, procs[p].rec)]
                ELSE files
    /\ procs' = [procs EXCEPT ![p].at = "closed"]
    /\ UNCHANGED <<now, last, keyed, svcvars>>

\* get_cached_result, lines 28-29.
RExists(p) ==
    /\ procs[p].at = "idle"
    /\ procs' = [procs EXCEPT ![p].at =
                    IF CacheFile(RaceKey) \in DOMAIN files THEN "exists" ELSE "done"]
    /\ UNCHANGED <<files, now, last, keyed, svcvars>>

\* get_cached_result, lines 31-38 and 43: the file is opened and loaded.
RLoad(p) ==
    /\ procs[p].at = "exists"
    /\ procs' = [procs EXCEPT ![p] =
          IF CacheFile(RaceKey) \notin DOMAIN files THEN Proc("except", FALSE, EmptyFile, PyNone)
          ELSE LET c == files[CacheFile(RaceKey)] IN
               IF ReadRaises(c) THEN Proc("except", FALSE, c, PyNone)
               ELSE IF Expired(c, now) THEN Proc("expired", FALSE, c, PyNone)
               ELSE Proc("done", FALSE, c, FromJson(Get(c, "result", JNull)))]
    /\ UNCHANGED <<files, now, last, keyed, svcvars>>

\* get_cached_result, lines 40-41 and 44-50: os.remove (a file that is gone
\* makes it raise, which is caught), then the miss is returned.
RRemove(p) ==
    /\ procs[p].at \in {"except", "expired"}
    /\ files' = IF CacheFile(RaceKey) \in DOMAIN files
                THEN Remove(files, CacheFile(RaceKey)) ELSE files
    /\ procs' = [q \in DOMAIN procs |->
                    IF q = p THEN [procs[q] EXCEPT !.at = "done"]
                    ELSE [procs[q] EXCEPT !.linked = FALSE]]
    /\ UNCHANGED <<now, last, keyed, svcvars>>

\* JobQueue.__init__: the regime is REDIS_AVAILABLE and REDIS_URL.
JobQueueInit(redis_available, redis_url) == redis_available /\ redis_url # ""

SvcInit ==
    /\ jobs_store = NoDict
    /\ ready = <<>>
    /\ pc = NoDict
    /\ frame = NoDict
    /\ runs = NoDict
    /\ cur = Idle
    /\ resp = NoResponse
    /\ rq_jobs = NoDict

CacheInit ==
    /\ files = NoFiles
    /\ now = StartTime
    /\ last = NoCall
    /\ keyed = <<>>
    /\ procs = NoProcs
    /\ SvcInit
    /\ use_redis = JobQueueInit(FALSE, "")
    /\ broker_up = FALSE

Init ==
    /\ files = NoFiles
    /\ now = StartTime
    /\ last = NoCall
    /\ keyed = <<>>
    /\ procs = NoProcs
    /\ SvcInit
    /\ \E redis_available \in BOOLEAN, redis_url \in {"", "redis://broker"} :
          use_redis = JobQueueInit(redis_available, redis_url)
    /\ broker_up \in BOOLEAN

RequestIds == UUIDs \cup {"cached", Uuid(0)}

Next ==
    \/ \E q \in Requests : AnalyzeAsyncCall(q[1], q[2], q[3])
    \/ AnalyzeAsyncReturn
    \/ \E j \in UUIDs : run_async_job(j)
    \/ \E id \in RequestIds : get_job_result(id)
    \/ \E q \in PrecachedRequests, v \in PrecachedValues :
          OutsideCacheResult(q[1], q[2], q[3], v)
    \/ \E j \in UUIDs : WorkerStart(j)
    \/ \E j \in UUIDs : run_analysis_job(j)
    \/ \E j \in UUIDs : BrokerCancel(j)
    \/ \E j \in UUIDs : BrokerDamage(j)
    \/ BrokerFlip
    \/ Tick(MaxSvcTicks)

Spec == Init /\ [][Next]_vars

\* The event loop keeps running: a task that is ready or running, and a handler
\* that is about to answer, take their next step.
FairSpec ==
    /\ Spec
    /\ WF_vars(\E j \in UUIDs : run_async_job(j))
    /\ WF_vars(AnalyzeAsyncReturn)

(***************************************************************************)
(* Properties of the job queue and the handlers.                           *)
(***************************************************************************)
Terminal == {"finished", "failed"}
Issued == DOMAIN jobs_store \cup DOMAIN rq_jobs

\* C1: the status of a local job goes queued, started, then one of finished or
\* failed, and a finished or failed status never changes again.
C1_StatusSequence ==
    [][\A j \in DOMAIN jobs_store :
          jobs_store'[j].status # jobs_store[j].status =>
              \/ jobs_store[j].status = "queued" /\ jobs_store'[j].status = "started"
              \/ jobs_store[j].status = "started" /\ jobs_store'[j].status \in Terminal]_vars

\* C2: a local record has a result only when finished, an error only when
\* failed, and never both.
C2_ResultErrorExclusive ==
    \A j \in DOMAIN jobs_store :
        LET r == jobs_store[j] IN
        /\ r.result # PyNone => r.status = "finished"
        /\ r.error # PyNone => r.status = "failed"
        /\ ~(r.result # PyNone /\ r.error # PyNone)

\* A job whose conversion to a dict raised has ended failed, with the error set.
C2_Witness ==
    \E j \in DOMAIN jobs_store :
        /\ pc[j] = "done" /\ frame[j].exc = AttributeError
        /\ jobs_store[j].error # PyNone /\ jobs_store[j].result = PyNone

\* C3: when orchestrator.run raised for a local job, the job ends failed with
\* error = str(e) and no result, and POST /analyze/async was not answered by an
\* error.
C3_RunErrorRecorded ==
    /\ \A j \in DOMAIN jobs_store :
          (pc[j] = "done" /\ frame[j].exc \in RunErrors) =>
              /\ jobs_store[j].status = "failed"
              /\ jobs_store[j].error = [ty |-> "str", kt |-> "str", body |-> frame[j].exc.msg]
              /\ jobs_store[j].result = PyNone
    /\ (~use_redis /\ resp.op = "analyze_async") => resp.code = 200

\* A job whose unit of work raised has run to its end.
C3_Witness ==
    \E j \in DOMAIN jobs_store :
        /\ pc[j] = "done" /\ frame[j].exc \in RunErrors
        /\ resp.op = "analyze_async"

\* C4: when enqueue_analysis has returned in the local regime, and when the
\* 'queued' response is produced, the job's record is there with status queued
\* and the unit of work has not been called.
C4_EnqueueDoesNotRun ==
    [][/\ (~use_redis /\ cur'.who = "analyze_async") =>
            /\ cur'.job \in DOMAIN jobs_store'
            /\ jobs_store'[cur'.job].status = "queued"
            /\ runs'[cur'.job] = 0
       /\ (/\ ~use_redis /\ resp' # resp /\ resp'.op = "analyze_async"
           /\ resp'.body.status = "queued") =>
            /\ resp'.body.job_id \in DOMAIN jobs_store'
            /\ jobs_store'[resp'.body.job_id].status = "queued"
            /\ runs'[resp'.body.job_id] = 0]_vars

\* The 'queued' response for a local job has been produced.
C4_Witness ==
    /\ ~use_redis /\ resp.op = "analyze_async" /\ resp.code = 200
    /\ resp.body.status = "queued"
    /\ resp.body.job_id \in DOMAIN jobs_store
    /\ jobs_store[resp.body.job_id].status = "queued"

\* C5: with the event loop running, every local job reaches finished or failed
\* and its task its end.
C5_EveryJobEnds ==
    \A j \in UUIDs :
        (j \in DOMAIN jobs_store) ~>
            (j \in DOMAIN jobs_store /\ jobs_store[j].status \in Terminal /\ pc[j] = "done")

\* Two local jobs have both ended.
C5_Witness ==
    /\ Cardinality(DOMAIN jobs_store) = MaxJobs
    /\ \A j \in DOMAIN jobs_store : pc[j] = "done" /\ jobs_store[j].status \in Terminal

\* The status, result and error of an issued job as the job store holds them.
CurrentStatus(j) ==
    IF j \in DOMAIN jobs_store THEN jobs_store[j].status ELSE rq_jobs[j].status

\* C6: GET /result/{job_id} for an id that enqueue_analysis returned succeeds
\* with the job's id and current status (the broker being reachable in the
\* durable regime).
C6_ResultForEveryJob ==
    [][(/\ resp' # resp /\ resp'.op = "get_job_result"
        /\ resp'.job_id \in Issued
        /\ use_redis => broker_up) =>
           /\ resp'.code = 200
           /\ resp'.body.job_id = resp'.job_id
           /\ resp'.body.status = CurrentStatus(resp'.job_id)]_vars

\* C7: GET /result/cached is answered 400 and changes neither the job table,
\* the broker's jobs nor the cache; an id the job store does not know is
\* answered 404.
C7_CachedRejected ==
    [][/\ (resp' # resp /\ resp'.op = "get_job_result" /\ resp'.job_id = "cached") =>
            /\ resp'.code = 400
            /\ UNCHANGED <<files, jobs_store, rq_jobs>>
       /\ (/\ resp' # resp /\ resp'.op = "get_job_result"
           /\ resp'.job_id # "cached" /\ resp'.job_id \notin Issued) =>
            resp'.code = 404]_vars

\* GET /result/cached has been answered while a finished job and its cache
\* entry exist.
C7_Witness ==
    /\ resp.op = "get_job_result" /\ resp.job_id = "cached" /\ resp.code = 400
    /\ \E j \in DOMAIN jobs_store : jobs_store[j].status = "finished"
    /\ DOMAIN files # {}

CacheNext ==
    \/ \E k \in Keys, v \in Values, ttl \in TTLs : CallCacheResult(k, v, ttl)
    \/ \E k \in Keys : CallGetCachedResult(k)
    \/ \E k \in Keys, c \in ForeignContents : ForeignWrite(k, c)
    \/ Tick(MaxTicks)

CacheSpec == CacheInit /\ [][CacheNext]_vars

(***************************************************************************)
(* Properties of the cache.                                                *)
(***************************************************************************)
\* A value made of JSON's own types only: json.load(json.dump(v)) has v's shape.
JsonNative(v) == v.ty \in {"dict", "str", "none"} /\ v.kt = "str"

\* A record as cache_result writes it.
WrittenRecord(c) ==
    /\ c.kind = "object"
    /\ c.has = {"result", "cached_at", "ttl"}
    /\ c.cached_at.jt = "num"
    /\ c.ttl.jt = "num"

\* A file that is no JSON object, or an object whose stamp or ttl is no number.
Corrupt(c) ==
    \/ c.kind \in {"garbage", "empty", "truncated", "array"}
    \/ /\ c.kind = "object"
       /\ \/ "cached_at" \in c.has /\ c.cached_at.jt # "num"
          \/ "ttl" \in c.has /\ c.ttl.jt # "num"

\* C8 as stated: cache_result(k, v, ttl) followed at once by get_cached_result(k)
\* returns v, and not a miss, for any serializable v and any ttl.
C8_RoundTripAnyTTL ==
    [][(/\ last.op = "put" /\ ~last.raised
        /\ last'.op = "get" /\ last'.key = last.key /\ last'.time = last.time)
       => (last'.ret = last.val /\ last'.ret # PyNone)]_vars

\* C8 amended: cache_result(k, v, ttl) followed by get_cached_result(k), with no
\* other call in between, returns v when v is made of JSON's own types and the
\* time elapsed between the two calls is at most ttl.
C8_RoundTrip ==
    [][(/\ last.op = "put" /\ JsonNative(last.val)
        /\ last'.op = "get" /\ last'.key = last.key
        /\ last'.time - last.time <= last.ttl)
       => (last'.ret = last.val /\ ~last'.raised)]_vars

\* A get found a record written by cache_result and returned its dict.
C8_Witness ==
    /\ last.op = "get" /\ WrittenRecord(last.pre)
    /\ last.ret = PyDict("str", "m1")
    /\ last.time > last.pre.cached_at.n

\* C9: get_cached_result on a written record returns a miss and deletes the
\* file exactly when now - cached_at > ttl; otherwise it returns the stored
\* value and leaves the file as it was.
C9_TTLLaw ==
    (last.op = "get" /\ WrittenRecord(last.pre)) =>
        LET age == last.time - last.pre.cached_at.n
            gone == At(files, last.key) = Absent
        IN /\ ~last.raised
           /\ (last.ret = PyNone /\ gone) <=> (age > last.pre.ttl.n)
           /\ age <= last.pre.ttl.n =>
                  /\ last.ret = FromJson(last.pre.result)
                  /\ At(files, last.key) = last.pre

\* A get found a record with a positive ttl whose age exceeds it.
C9_Witness ==
    /\ last.op = "get" /\ WrittenRecord(last.pre)
    /\ last.pre.ttl.n > 0
    /\ last.time - last.pre.cached_at.n > last.pre.ttl.n
    /\ At(files, last.key) = Absent

\* C10 as stated: a get on a file that is anything but the expected record
\* returns a miss, removes the file and does not raise.
C10_AnyNonRecord ==
    (last.op = "get" /\ last.pre # Absent /\ ~WrittenRecord(last.pre)) =>
        /\ last.ret = PyNone
        /\ ~last.raised
        /\ At(files, last.key) = Absent

\* C10 amended: a get on a file that is no JSON object, or an object whose
\* cached_at or ttl is no number, returns a miss, removes the file and does not
\* raise; a get that follows it on the same key returns a miss without raising.
C10_Corruption ==
    [][/\ (last'.op = "get" /\ Corrupt(last'.pre)) =>
            /\ last'.ret = PyNone
            /\ ~last'.raised
            /\ At(files', last'.key) = Absent
       /\ (/\ last.op = "get" /\ Corrupt(last.pre)
           /\ last' # last /\ last'.op = "get" /\ last'.key = last.key) =>
            /\ last'.ret = PyNone
            /\ ~last'.raised
            /\ last'.pre = Absent]_vars

\* A get found garbage bytes, answered a miss and the file is gone.
C10_Witness ==
    /\ last.op = "get" /\ last.pre = Garbage
    /\ last.ret = PyNone /\ ~last.raised
    /\ At(files, last.key) = Absent

\* C11: after cache_result(k, v2, t2) has returned, whatever entry was under k
\* before, the file holds v2, t2 and this write's stamp and nothing else; a get
\* that follows misses exactly when the time since this write exceeds t2.
C11_Overwrite ==
    [][/\ (last'.op = "put" /\ ~last'.raised) =>
            At(files', last'.key) =
                [kind |-> "object", has |-> {"result", "cached_at", "ttl"},
                 result |-> ToJson(last'.val), cached_at |-> JNum(last'.time),
                 ttl |-> JNum(last'.ttl)]
       /\ (/\ last.op = "put" /\ ~last.raised /\ WrittenRecord(last.pre)
           /\ last' # last /\ last'.op = "get" /\ last'.key = last.key) =>
            /\ (At(files', last.key) = Absent) <=> (last'.time - last.time > last.ttl)
            /\ (last'.time - last.time <= last.ttl) => last'.ret = FromJson(ToJson(last.val))]_vars

\* A write replaced a record written earlier with another value, another ttl
\* and an older stamp.
C11_Witness ==
    /\ last.op = "put" /\ ~last.raised /\ WrittenRecord(last.pre)
    /\ last.pre.result # ToJson(last.val)
    /\ last.pre.ttl.n # last.ttl
    /\ last.pre.cached_at.n < last.time
    /\ At(files, last.key).result = ToJson(last.val)

KeyNext ==
    \E address \in Addresses, radius_m \in Radii, include_long_context \in BOOLEAN :
        CallGenerateCacheKey(address, radius_m, include_long_context)

KeySpec == CacheInit /\ [][KeyNext]_vars

(***************************************************************************)
(* Properties of generate_cache_key.                                       *)
(***************************************************************************)
SameTriple(a, b) ==
    /\ a.address = b.address
    /\ a.radius_m = b.radius_m
    /\ a.include_long_context = b.include_long_context

\* C12: two calls of generate_cache_key with the same (address, radius_m,
\* include_long_context) return the same key, and two calls whose triples
\* differ hash different strings, whatever '_', digits, letter case or blanks
\* the addresses hold.
C12_KeyInjective ==
    \A i, j \in DOMAIN keyed :
        /\ SameTriple(keyed[i], keyed[j]) =>
              keyed[i].key = keyed[j].key /\ keyed[i].key_string = keyed[j].key_string
        /\ ~SameTriple(keyed[i], keyed[j]) => keyed[i].key_string # keyed[j].key_string

\* Two calls whose addresses differ by a digit that is also the other's radius.
C12_Witness ==
    /\ Len(keyed) = 2
    /\ keyed[1].address = "p" /\ keyed[1].radius_m = 11
    /\ keyed[2].address = "p1" /\ keyed[2].radius_m = 1
    /\ keyed[1].include_long_context = keyed[2].include_long_context
    /\ keyed[1].key_string # keyed[2].key_string

(***************************************************************************)
(* Further properties of the handlers and the job queue.                   *)
(***************************************************************************)
\* An entry that get_cached_result reads and finds not expired.
ValidEntry(fs, key, t) ==
    /\ CacheFile(key) \in DOMAIN fs
    /\ ~ReadRaises(fs[CacheFile(key)])
    /\ ~Expired(fs[CacheFile(key)], t)

\* C13: POST /analyze/async called while a non-expired entry is under the
\* request's key answers job_id "cached", status "finished" and enqueues
\* nothing (no record, no task, no broker job); called without such an entry it
\* calls enqueue_analysis once.
C13_CacheFirst ==
    [][\A q \in Requests :
          AnalyzeAsyncCall(q[1], q[2], q[3]) =>
              IF ValidEntry(files, generate_cache_key(q[1], q[2], q[3]), now)
              THEN /\ resp'.op = "analyze_async" /\ resp'.code = 200
                   /\ resp'.body.job_id = "cached" /\ resp'.body.status = "finished"
                   /\ UNCHANGED <<jobs_store, ready, rq_jobs>>
              ELSE \/ Cardinality(Issued') = Cardinality(Issued) + 1
                   \/ EnqueueRaises /\ resp'.code = 500]_vars

\* C14: use_redis never changes after the constructor.  In the durable regime
\* the in-process table and the loop's tasks stay empty and a lookup answers
\* from the broker alone; in the local regime the broker holds no job of this
\* process, no enqueue fails on it, and a lookup of a job in the table finds it
\* whether the broker answers or not.
C14_RegimeFixed ==
    [][/\ use_redis' = use_redis
       /\ use_redis =>
            /\ jobs_store' = NoDict /\ ready' = <<>> /\ pc' = NoDict
            /\ (resp' # resp /\ resp'.op = "get_job_result" /\ resp'.job_id # "cached") =>
                   (resp'.code = 404) <=> (\/ ~broker_up
                                           \/ resp'.job_id \notin DOMAIN rq_jobs
                                           \/ rq_jobs[resp'.job_id].result = Unreadable)
       /\ ~use_redis =>
            /\ rq_jobs' = NoDict
            /\ (resp' # resp /\ resp'.op = "analyze_async") => resp'.code = 200
            /\ (resp' # resp /\ resp'.op = "get_job_result" /\ resp'.job_id # "cached") =>
                   (resp'.code = 404) <=> (resp'.job_id \notin DOMAIN jobs_store)]_vars

\* Durable regime: a job was handed to the broker and then looked up there.
C14_Witness ==
    /\ use_redis /\ jobs_store = NoDict
    /\ resp.op = "get_job_result" /\ resp.code = 200
    /\ resp.job_id \in DOMAIN rq_jobs

FourStates == {"queued", "started", "finished", "failed"}

\* C15: in the durable regime the status in the dict get_job_status returns is
\* one of queued, started, finished, failed, whatever the job's native status.
C15_FourStates ==
    use_redis =>
        \A id \in RequestIds :
            LET status == get_job_status(id)
            IN "status" \in DOMAIN status => status.status \in FourStates

\* C16: in the durable regime get_job_status does not raise, and when the
\* broker does not answer, or a field of the job cannot be read, it returns
\* None as it does for an id the broker does not know; GET /result answers 404.
C16_LookupNeverRaises ==
    /\ use_redis =>
          \A id \in RequestIds :
              /\ get_job_status(id) # Raised
              /\ (\/ ~broker_up
                  \/ id \notin DOMAIN rq_jobs
                  \/ rq_jobs[id].result = Unreadable) => get_job_status(id) = PyNone
    /\ (use_redis /\ resp.op = "get_job_result") => resp.code \in {200, 400, 404}

\* A job the broker holds was looked up while the broker did not answer.
C16_Witness ==
    /\ use_redis /\ ~broker_up
    /\ resp.op = "get_job_result" /\ resp.code = 404
    /\ resp.job_id \in DOMAIN rq_jobs
    /\ \E j \in DOMAIN rq_jobs : rq_jobs[j].result = Unreadable

\* C17: a local job whose address the geocoder has no match for: run did not
\* raise, it returned verdict "Error" with the memo "Could not geocode
\* address." and called no data lookup tool and not the LLM; the job ends
\* finished with that result, not failed.
C17_GeocodeFailure ==
    \A j \in DOMAIN jobs_store :
        (runs[j] > 0 /\ geocode(jobs_store[j].address) = PyNone) =>
            /\ frame[j].exc = NoExc
            /\ frame[j].value.verdict = "Error"
            /\ frame[j].value.memo_markdown = "Could not geocode address."
            /\ frame[j].calls \cap (DataTools \cup {"llm_reasoner"}) = {}
            /\ jobs_store[j].status # "failed"
            /\ pc[j] = "done" =>
                  /\ jobs_store[j].status = "finished"
                  /\ jobs_store[j].result = PyDict("str", "Could not geocode address./Error")
                  /\ jobs_store[j].error = PyNone

\* A job for an address without a match has run to its end.
C17_Witness ==
    \E j \in DOMAIN jobs_store :
        /\ jobs_store[j].address \in NoMatch
        /\ runs[j] = 1 /\ pc[j] = "done"
        /\ jobs_store[j].status = "finished"

\* C18: in the local regime, while a job is in status started (its unit of
\* work executing) the process is not blocked: a poll of the job by GET /result
\* and a further POST /analyze/async can take their step, so that the poll
\* sees status started.
C18_NotBlocked ==
    \A j \in DOMAIN jobs_store :
        jobs_store[j].status = "started" =>
            /\ ENABLED get_job_result(j)
            /\ CanEnqueue => ENABLED (\E q \in Requests : AnalyzeAsyncCall(q[1], q[2], q[3]))

\* C19: in the local regime a second job starts before the first has reached a
\* terminal state: while one job is in status started, the task of the next
\* job in the loop's queue can take its first step, which leaves two records in
\* status started.
C19_TwoStarted ==
    \A j1, j2 \in DOMAIN jobs_store :
        (/\ jobs_store[j1].status = "started"
         /\ ready # <<>> /\ j2 = Head(ready)) => ENABLED TaskStart(j2)

RequestFields == {"address", "radius_m", "include_long_context"}

\* C20: in the local regime a record enters the table in a step of POST
\* /analyze/async that enqueues it, one record per step, under an id that was
\* not in the table, holding the request's arguments; a record in the table
\* changes only in a step of its own task, never in its address, radius_m or
\* include_long_context, and no record leaves the table.
C20_RecordFrame ==
    [][/\ DOMAIN jobs_store \subseteq DOMAIN jobs_store'
       /\ Cardinality(DOMAIN jobs_store' \ DOMAIN jobs_store) <= 1
       /\ \A j \in DOMAIN jobs_store' \ DOMAIN jobs_store :
             /\ cur = Idle /\ cur' = Handler(j)
             /\ jobs_store'[j].status = "queued"
             /\ \E q \in Requests :
                   /\ AnalyzeAsyncCall(q[1], q[2], q[3])
                   /\ jobs_store'[j].address = q[1]
                   /\ jobs_store'[j].radius_m = q[2]
                   /\ jobs_store'[j].include_long_context = q[3]
       /\ \A j \in DOMAIN jobs_store :
             /\ jobs_store'[j] # jobs_store[j] => (cur = Task(j) \/ cur' = Task(j))
             /\ \A f \in RequestFields : jobs_store'[j][f] = jobs_store[j][f]]_vars

\* Two jobs of different requests are in the table, one ended and polled, the
\* other still queued.
C20_Witness ==
    \E j1, j2 \in DOMAIN jobs_store :
        /\ jobs_store[j1].address # jobs_store[j2].address
        /\ jobs_store[j1].status \in Terminal /\ pc[j1] = "done"
        /\ jobs_store[j2].status = "queued"
        /\ resp.op = "get_job_result" /\ resp.job_id = j1

(***************************************************************************)
(* The service alone: no caller outside the handlers writes the cache.     *)
(***************************************************************************)
ClosedNext ==
    \/ \E q \in Requests : AnalyzeAsyncCall(q[1], q[2], q[3])
    \/ AnalyzeAsyncReturn
    \/ \E j \in UUIDs : run_async_job(j)
    \/ \E id \in RequestIds : get_job_result(id)
    \/ \E j \in UUIDs : WorkerStart(j)
    \/ \E j \in UUIDs : run_analysis_job(j)
    \/ \E j \in UUIDs : BrokerCancel(j)
    \/ \E j \in UUIDs : BrokerDamage(j)
    \/ BrokerFlip
    \/ Tick(MaxSvcTicks)

ClosedSpec == Init /\ [][ClosedNext]_vars

\* C21: when only the handlers write the cache, every cache file is one that
\* GET /result wrote under "job_" and the job's id, none is at a key that POST
\* /analyze/async reads, and POST /analyze/async never answers job_id "cached".
C21_WriteNeverRead ==
    /\ DOMAIN files \subseteq {CacheFile("job_" \o j) : j \in Issued}
    /\ \A q \in Requests : CacheFile(generate_cache_key(q[1], q[2], q[3])) \notin DOMAIN files
    /\ (resp.op = "analyze_async" /\ resp.code = 200) => resp.body.job_id # "cached"

\* The result of a finished job was cached by GET /result, and a later POST
\* /analyze/async for the same address was answered with a new job.
C21_Witness ==
    /\ resp.op = "analyze_async" /\ resp.code = 200
    /\ resp.body.job_id \in DOMAIN jobs_store
    /\ \E j \in DOMAIN jobs_store :
          /\ j # resp.body.job_id
          /\ jobs_store[j].address = jobs_store[resp.body.job_id].address
          /\ CacheFile("job_" \o j) \in DOMAIN files

RaceInit ==
    /\ files \in {NoFiles,
                  WriteFile(NoFiles, CacheFile(RaceKey), OldValid),
                  WriteFile(NoFiles, CacheFile(RaceKey), OldExpired)}
    /\ now = StartTime
    /\ last = NoCall
    /\ keyed = <<>>
    /\ procs = NoProcs
    /\ SvcInit
    /\ use_redis = JobQueueInit(FALSE, "")
    /\ broker_up = FALSE

RaceNext ==
    \/ \E p \in Writers, v \in RaceValues : WOpen(p, v, DefaultTTL)
    \/ \E p \in Writers : WClose(p)
    \/ \E p \in Readers : RExists(p)
    \/ \E p \in Readers : RLoad(p)
    \/ \E p \in Readers : RRemove(p)

RaceSpec == RaceInit /\ [][RaceNext]_vars

(***************************************************************************)
(* Properties of the cache used by several processes.                      *)
(***************************************************************************)
\* C22: when the cache_result calls of two processes on one key have both
\* completed (and no reader has touched the key), the file is the record that
\* one of the two wrote: no mixture of the two, no file that cannot be parsed.
C22_LastWriteWins ==
    (/\ \A p \in Writers : procs[p].at = "closed"
     /\ \A p \in Readers : procs[p].at = "idle") =>
        \E p \in Writers : At(files, RaceKey) = procs[p].rec

\* C29: a get_cached_result that runs concurrently with one cache_result on
\* the same key does not destroy the write: when both have completed, the
\* entry of the key exists and is the record that was written.
C29_WriteSurvives ==
    (/\ procs["w1"].at = "closed"
     /\ procs["w2"].at = "idle"
     /\ procs["r1"].at = "done") =>
        At(files, RaceKey) = procs["w1"].rec

\* C28: a cache_result that raised leaves the entry the key had before as it
\* was: a get_cached_result that follows it on the key returns the old value
\* when the old entry has not expired.
C28_FailedWriteKeepsOld ==
    [][(/\ last.op = "put" /\ last.raised /\ WrittenRecord(last.pre)
        /\ last' # last /\ last'.op = "get" /\ last'.key = last.key
        /\ ~Expired(last.pre, last'.time))
       => (/\ last'.pre = last.pre
           /\ last'.ret = FromJson(last.pre.result))]_vars

(***************************************************************************)
(* Properties of the regime, the runs of the unit of work and the stamps.  *)
(***************************************************************************)
\* C23: a process started with a broker configured but not reachable runs its
\* jobs in the local regime: its first POST /analyze/async (a cache miss, the
\* broker still not reachable) records a queued entry in the in-process table
\* and schedules a local task, instead of failing at the enqueue.
C23_UnreachableRunsLocal ==
    [][\A q \in Requests :
          (/\ Init /\ use_redis /\ ~broker_up
           /\ AnalyzeAsyncCall(q[1], q[2], q[3]))
          => (/\ resp'.code # 500
              /\ DOMAIN jobs_store' = {NextId}
              /\ jobs_store'[NextId].status = "queued"
              /\ ready' = <<NextId>>)]_vars

\* C24: orchestrator.run is called at most once for each local job: not at all
\* before the task reaches line 66, once from then on; and a job that ended
\* failed stays as it ended: it is not run again, its task is not scheduled
\* again and its record does not change.
C24_NoRetry ==
    [][\A j \in DOMAIN jobs_store' :
          /\ runs'[j] = IF pc'[j] \in {"pending", "l61", "l66"} THEN 0 ELSE 1
          /\ (j \in DOMAIN jobs_store /\ pc[j] = "done" /\ jobs_store[j].status = "failed") =>
                /\ runs'[j] = runs[j]
                /\ pc'[j] = "done"
                /\ jobs_store'[j] = jobs_store[j]
                /\ \A i \in 1..Len(ready') : ready'[i] # j]_vars

\* A job ended failed after one run, and a job enqueued after it has ended too.
C24_Witness ==
    \E j, k \in DOMAIN jobs_store :
        /\ j # k
        /\ pc[j] = "done" /\ jobs_store[j].status = "failed" /\ runs[j] = 1
        /\ pc[k] = "done" /\ jobs_store[k].created_at > jobs_store[j].failed_at

\* C26: the stamps of a local job.  created_at is in the record from the
\* enqueue on, started_at from the start on; a job that has ended has exactly
\* one of finished_at and failed_at: finished_at when its status is finished,
\* failed_at when it is failed; a stamp that is written is never written again;
\* and created_at <= started_at <= finished_at or failed_at.
C26_Stamps ==
    [][\A j \in DOMAIN jobs_store' :
          LET r == jobs_store'[j]
              Has(k) == k \in DOMAIN r
          IN /\ Has("created_at")
             /\ Has("started_at") <=> pc'[j] \notin {"pending", "l61"}
             /\ Has("started_at") => r.created_at <= r.started_at
             /\ pc'[j] = "done" =>
                   /\ Has("finished_at") <=> ~Has("failed_at")
                   /\ Has("finished_at") <=> r.status = "finished"
                   /\ Has("failed_at") <=> r.status = "failed"
             /\ Has("finished_at") => r.started_at <= r.finished_at
             /\ Has("failed_at") => r.started_at <= r.failed_at
             /\ j \in DOMAIN jobs_store =>
                   \A k \in {"created_at", "started_at", "finished_at", "failed_at"} :
                       k \in DOMAIN jobs_store[j] => (Has(k) /\ r[k] = jobs_store[j][k])]_vars

\* A job ended failed after its status had been finished (the value had no
\* dict method): it has failed_at and no finished_at, and the clock moved
\* between its start and its end.
C26_Witness ==
    \E j \in DOMAIN jobs_store :
        /\ pc[j] = "done" /\ jobs_store[j].status = "failed"
        /\ frame[j].exc = AttributeError
        /\ "finished_at" \notin DOMAIN jobs_store[j]
        /\ jobs_store[j].created_at <= jobs_store[j].started_at
        /\ jobs_store[j].started_at < jobs_store[j].failed_at

\* C30: whether POST /analyze/async answers "cached" depends on the entry's
\* existence and age alone: it answers "cached" at once whenever the request's
\* key holds a parseable entry that has not expired, whatever the stored value.
C30_HitWhateverValue ==
    [][\A q \in Requests :
          AnalyzeAsyncCall(q[1], q[2], q[3]) =>
              LET hit == /\ resp'.op = "analyze_async" /\ resp'.code = 200
                         /\ cur' = Idle
                         /\ resp'.body.job_id = "cached"
              IN ValidEntry(files, generate_cache_key(q[1], q[2], q[3]), now) => hit]_vars

(***************************************************************************)
(* The service with its synchronous endpoint.                              *)
(***************************************************************************)
SyncNext ==
    \/ \E q \in Requests : analyze(q[1], q[2], q[3])
    \/ Next

SyncSpec == Init /\ [][SyncNext]_vars

\* C25: POST /analyze answers with the value the unit of work returned, or,
\* when the unit of work failed, with an error and never with a memo; whatever
\* the outcome it leaves the job table, the loop's tasks, the broker's jobs and
\* the cache files as they were.
C25_SyncPropagates ==
    [][\A q \in Requests :
          analyze(q[1], q[2], q[3]) =>
              /\ resp'.op = "analyze"
              /\ resp'.code \in {200, 500}
              /\ resp'.code = 200 =>
                    \E out \in run(q[1], q[2], q[3]) :
                        out.exc = NoExc /\ resp'.body = out.value
              /\ resp'.code = 500 =>
                    /\ resp'.body = NoDict
                    /\ \E out \in run(q[1], q[2], q[3]) :
                          out.exc # NoExc \/ ~HasDict(out.value)
              /\ UNCHANGED <<files, jobs_store, ready, pc, frame, runs, rq_jobs, last>>]_vars

\* POST /analyze answered an error while a local job was queued and the
\* request's key held a cache entry.
C25_Witness ==
    /\ resp.op = "analyze" /\ resp.code = 500
    /\ \E j \in DOMAIN jobs_store : jobs_store[j].status = "queued"
    /\ \E q \in Requests : CacheFile(generate_cache_key(q[1], q[2], q[3])) \in DOMAIN files

(***************************************************************************)
(* The service with a caller of enqueue_analysis outside the event loop.   *)
(***************************************************************************)
DirectNext ==
    \/ \E q \in Requests : EnqueueOutsideLoop(q[1], q[2], q[3])
    \/ ClosedNext

DirectSpec == Init /\ [][DirectNext]_vars

\* C27: when enqueue_analysis raises, in either regime, neither the job table
\* nor the broker holds a record of the job afterwards.
C27_RaiseLeavesNoRecord ==
    [][\A q \in Requests :
          (EnqueueOutsideLoop(q[1], q[2], q[3]) /\ last'.raised) =>
              last'.key \notin DOMAIN jobs_store' \cup DOMAIN rq_jobs']_vars

====
